---- MODULE Spec2Model ----
(***************************************************************************)
(* Model of the asynchronous gateway handle of rust-igd                    *)
(* (src/aio/gateway.rs): the public operations get_external_ip,            *)
(* get_any_address, add_any_port, add_port and remove_port, and the        *)
(* private any-port negotiation behind add_any_port.                       *)
(*                                                                         *)
(* Every public call is a future.  A future runs from one await on         *)
(* perform_request to the next; each action below is the code executed     *)
(* between two such suspension points.  The device is the environment: it  *)
(* answers a request in flight with any response of the request's shape.   *)
(***************************************************************************)
EXTENDS Integers, FiniteSets, Sequences, TLC

(* ------------------------------ bounds --------------------------------- *)

\* Ports are 0..MaxPort instead of 0..65535.
MaxPort == 2

(* --------------------------- program constants ------------------------- *)

\* for _ in 0u8..20u8
MaxAttempts == 20

(* ------------------------------ domains -------------------------------- *)

Task == {1, 2}
\* The tasks that issue calls when calls are made one after the other.
SeqTask == {1}

Port == 0..MaxPort
\* no port: the u16 of a value that carries none
NoPort == -1

Protocol == {"TCP", "UDP"}
LocalIp == {"192.168.0.2"}
ExternalIp == {"198.51.100.7", "203.0.113.9"}
NoIp == "none"
Lease == {0, 60}
Description == {"a", "b"}
Addr == {"192.168.0.1:5000", "192.168.0.1:49152"}
ControlUrl == {"/ctl/IPConn"}

\* SocketAddrV4 of the local endpoint
SocketAddrV4(ipv4, port) == [ip |-> ipv4, port |-> port]
LocalAddr == {SocketAddrV4(a, p) : a \in LocalIp, p \in Port}
NoAddr == SocketAddrV4(NoIp, NoPort)

\* common::random_port(): a port of the valid range, never 0
RandomPort == 1..MaxPort

(* what perform_request can fail with: a transport failure, or a fault    *)
(* reported by the device                                                  *)
TransportError == {"TransportError"}
Fault == {"InvalidAction", "ConflictInMappingEntry", "SamePortValuesRequired",
          "ActionNotAuthorized"}
RequestError == TransportError \cup Fault
NoError == "none"

(* ------------------------------ requests ------------------------------- *)

GET_EXTERNAL_IP_HEADER == "GetExternalIPAddress"
ADD_ANY_PORT_MAPPING_HEADER == "AddAnyPortMapping"
ADD_PORT_MAPPING_HEADER == "AddPortMapping"
DELETE_PORT_MAPPING_HEADER == "DeletePortMapping"

\* impl fmt::Display for Gateway
Display(g) == <<"http://", g.addr, g.control_url>>

NoRequest ==
    [header |-> "none", url |-> <<>>, protocol |-> "none", external_port |-> NoPort,
     local_addr |-> NoAddr, lease_duration |-> -1, description |-> "none"]

format_get_external_ip_message(g) ==
    [NoRequest EXCEPT !.header = GET_EXTERNAL_IP_HEADER, !.url = Display(g)]

format_add_any_port_mapping_message(g, protocol, external_port, local_addr, lease_duration, description) ==
    [header |-> ADD_ANY_PORT_MAPPING_HEADER, url |-> Display(g),
     protocol |-> protocol, external_port |-> external_port,
     local_addr |-> local_addr, lease_duration |-> lease_duration,
     description |-> description]

format_add_port_mapping_message(g, protocol, external_port, local_addr, lease_duration, description) ==
    [header |-> ADD_PORT_MAPPING_HEADER, url |-> Display(g),
     protocol |-> protocol, external_port |-> external_port,
     local_addr |-> local_addr, lease_duration |-> lease_duration,
     description |-> description]

format_delete_port_message(g, protocol, external_port) ==
    [NoRequest EXCEPT !.header = DELETE_PORT_MAPPING_HEADER, !.url = Display(g),
                      !.protocol = protocol, !.external_port = external_port]

(* ------------------------------ responses ------------------------------ *)

\* Result<RequestReponse, RequestError> of perform_request
NoResponse == [status |-> "none", ip |-> NoIp, port |-> NoPort, err |-> NoError]
RespOk == [NoResponse EXCEPT !.status = "ok"]
RespIp(a) == [RespOk EXCEPT !.ip = a]
RespPort(p) == [RespOk EXCEPT !.port = p]
RespErr(e) == [NoResponse EXCEPT !.status = "err", !.err = e]

\* The responses the device or the transport can give to a request.
Responses(req) ==
    {RespErr(e) : e \in RequestError} \cup
    CASE req.header = GET_EXTERNAL_IP_HEADER -> {RespIp(a) : a \in ExternalIp}
      [] req.header = ADD_ANY_PORT_MAPPING_HEADER -> {RespPort(p) : p \in Port}
      [] OTHER -> {RespOk}

(* ------------------------------- results ------------------------------- *)

\* the typed errors of crate::errors
Error(type, kind, cause) == [type |-> type, kind |-> kind, cause |-> cause]
NoErr == Error("none", "none", NoError)

\* Result<_, _> returned by a public operation
NoResult == [status |-> "none", ip |-> NoIp, port |-> NoPort, err |-> NoErr]
Ok == [NoResult EXCEPT !.status = "ok"]
OkPort(p) == [Ok EXCEPT !.port = p]
OkIp(a) == [Ok EXCEPT !.ip = a]
OkAddr(a, p) == [Ok EXCEPT !.ip = a, !.port = p]
Err(e) == [NoResult EXCEPT !.status = "err", !.err = e]

InternalPortZeroInvalid(type) == Error(type, "InternalPortZeroInvalid", NoError)
ExternalPortZeroInvalid == Error("AddPortError", "ExternalPortZeroInvalid", NoError)
NoPortsAvailable == Error("AddAnyPortError", "NoPortsAvailable", NoError)

(* --------------------- response parsing, error mapping ----------------- *)

\* parsing::parse_get_external_ip_response
parse_get_external_ip_response(resp) ==
    IF resp.status = "ok" THEN OkIp(resp.ip)
    ELSE Err(Error("GetExternalIpError", "RequestError", resp.err))

\* impl From<GetExternalIpError> for AddAnyPortError, used by `?`
FromGetExternalIpError(e) == [e EXCEPT !.type = "AddAnyPortError"]

\* parsing::parse_add_any_port_mapping_response:
\* Ok(port), Err(None) for an unknown method, Err(Some(err)) otherwise
parse_add_any_port_mapping_response(resp) ==
    IF resp.status = "ok" THEN [tag |-> "Ok", port |-> resp.port, err |-> NoErr]
    ELSE IF resp.err = "InvalidAction"
         THEN [tag |-> "ErrNone", port |-> NoPort, err |-> NoErr]
         ELSE [tag |-> "ErrSome", port |-> NoPort,
               err |-> Error("AddAnyPortError", "RequestError", resp.err)]

\* parsing::convert_add_random_port_mapping_error:
\* None for "same port values required", Some(err) otherwise
convert_add_random_port_mapping_error(err) ==
    CASE err = "SamePortValuesRequired" -> [tag |-> "None", err |-> NoErr]
      [] err = "ConflictInMappingEntry" -> [tag |-> "Some", err |-> NoPortsAvailable]
      [] OTHER -> [tag |-> "Some",
                   err |-> Error("AddAnyPortError", "RequestError", err)]

\* parsing::convert_add_same_port_mapping_error
convert_add_same_port_mapping_error(err) ==
    Error("AddAnyPortError", "RequestError", err)

\* parsing::convert_add_port_error
convert_add_port_error(err) == Error("AddPortError", "RequestError", err)

\* parsing::parse_delete_port_mapping_response
parse_delete_port_mapping_response(resp) ==
    IF resp.status = "ok" THEN Ok
    ELSE Err(Error("RemovePortError", "RequestError", resp.err))

(* -------------------------------- state -------------------------------- *)

\* gateway: the Gateway value (addr, control_url) the calls are made on.
\* task:    for each task, the future of the public call it is running: the
\*          operation, its arguments and local variables, the suspension
\*          point it waits at, the request in flight there and its result;
\*          and, for the invocation, what it sent and what it was answered.
\* router:  the device behind the control url, where it is followed: what
\*          it supports and its table of port mappings.
VARIABLES gateway, task, router

vars == <<gateway, task, router>>

\* the awaits on perform_request, named by the function that sends
Site == {"get_external_ip", "add_any_port", "add_random_port_mapping",
         "add_same_port_mapping", "add_port", "remove_port"}

Operation == {"get_external_ip", "get_any_address", "add_any_port", "add_port",
              "remove_port"}

Args(protocol, external_port, local_addr, lease_duration, description) ==
    [protocol |-> protocol, external_port |-> external_port,
     local_addr |-> local_addr, lease_duration |-> lease_duration,
     description |-> description]

NoArgs == Args("none", NoPort, NoAddr, -1, "none")

\* A future that has not run yet: nothing sent, nothing received.
Fresh(op, a) ==
    [op |-> op, args |-> a, pc |-> "idle", n |-> 0, external_port |-> NoPort,
     ip |-> NoIp, inflight |-> NoRequest, result |-> NoResult,
     count |-> [s \in Site |-> 0], resp |-> [s \in Site |-> NoResponse],
     last |-> NoRequest, conflicts |-> 0, loops |-> 0]

\* Gateway::new
new(addr, control_url) == [addr |-> addr, control_url |-> control_url]

\* A router with no mapping.  any_port: it has the AddAnyPortMapping
\* method; same_port: it maps a port to the same local port only.
Router(any_port, same_port) ==
    [any_port |-> any_port, same_port |-> same_port,
     table |-> [k \in Protocol \X (Port \ {0}) |-> NoAddr]]

Init ==
    /\ gateway \in {new(a, c) : a \in Addr, c \in ControlUrl}
    /\ task = [t \in Task |-> Fresh("none", NoArgs)]
    /\ router = Router(FALSE, FALSE)

(* ----------------------- steps shared by the futures ------------------- *)

\* perform_request up to its await: the request is in flight.
perform_request(s, site, req) ==
    [s EXCEPT !.pc = site, !.inflight = req, !.last = req,
              !.count[site] = @ + 1]

\* perform_request after its await: the response has arrived.
Received(s, r) ==
    [s EXCEPT !.inflight = NoRequest, !.resp[s.pc] = r]

\* The future completes with res.  Inside get_any_address the result of
\* add_any_port goes through `?` and is combined with the ip.
Return(s, res) ==
    [s EXCEPT !.pc = "done",
              !.result = IF s.op = "get_any_address" /\ res.status = "ok"
                         THEN OkAddr(s.ip, res.port)
                         ELSE res]

\* Mutant: add_any_port without the check of the local port.
AddAnyPortEntry_Unchecked(g, s, p) ==
    perform_request([s EXCEPT !.external_port = p], "add_any_port",
        format_add_any_port_mapping_message(g, s.args.protocol, p,
            s.args.local_addr, s.args.lease_duration, s.args.description))

\* add_any_port from its entry to its first await; p is random_port().
AddAnyPortEntry(g, s, p) ==
    IF s.args.local_addr.port = 0
    THEN Return(s, Err(InternalPortZeroInvalid("AddAnyPortError")))
    ELSE perform_request([s EXCEPT !.external_port = p], "add_any_port",
             format_add_any_port_mapping_message(g, s.args.protocol, p,
                 s.args.local_addr, s.args.lease_duration, s.args.description))

\* add_port_mapping up to its await
add_port_mapping(g, s, site, external_port) ==
    perform_request(s, site,
        format_add_port_mapping_message(g, s.args.protocol, external_port,
            s.args.local_addr, s.args.lease_duration, s.args.description))

\* Mutant: a loop of one iteration too many (0..=20).
LoopHead_OneMore(g, s, k, p) ==
    IF k <= MaxAttempts
    THEN add_port_mapping(g, [s EXCEPT !.n = k, !.external_port = p],
                          "add_random_port_mapping", p)
    ELSE Return(s, Err(NoPortsAvailable))

\* The head of `for _ in 0u8..20u8` at index k: the k-th call of
\* add_random_port_mapping up to its await, or the end of the loop.
\* p is random_port().
LoopHead(g, s, k, p) ==
    IF k < MaxAttempts
    THEN add_port_mapping(g, [s EXCEPT !.n = k, !.external_port = p],
                          "add_random_port_mapping", p)
    ELSE Return(s, Err(NoPortsAvailable))

\* Mutant: a loop that goes on after any error (Err(_) => continue).
LoopMatch_AnyError(g, s, res, p) ==
    IF res.status = "ok" THEN Return(s, res)
    ELSE LoopHead(g, s, s.n + 1, p)

\* Mutant: a loop that reports exhaustion whatever error ended it.
LoopMatch_Exhaust(g, s, res, p) ==
    IF res.status = "ok" THEN Return(s, res)
    ELSE IF res.err = NoPortsAvailable THEN LoopHead(g, s, s.n + 1, p)
    ELSE Return(s, Err(NoPortsAvailable))

\* Mutant: a loop that gives up at the first port conflict.
LoopMatch_NoRetry(g, s, res, p) == Return(s, res)

\* The match of retry_add_random_port_mapping on what
\* add_random_port_mapping returned.
LoopMatch(g, s, res, p) ==
    IF res.status = "ok" THEN Return(s, res)
    ELSE IF res.err = NoPortsAvailable THEN LoopHead(g, s, s.n + 1, p)
    ELSE Return(s, res)

\* Mutant: add_same_port_mapping asking for a permanent lease.
SamePortEntry_Permanent(g, s) ==
    perform_request(s, "add_same_port_mapping",
        format_add_port_mapping_message(g, s.args.protocol, s.args.local_addr.port,
            s.args.local_addr, 0, s.args.description))

\* add_same_port_mapping up to its await
SamePortEntry(g, s) ==
    add_port_mapping(g, s, "add_same_port_mapping", s.args.local_addr.port)

(* ------------------------- the public operations ----------------------- *)

\* A task can make a call when it runs none.
CanCall(t) == task[t].pc = "idle"

\* The caller takes the result of a completed future and drops the future:
\* a Gateway holds addr and control_url and nothing of a call.
drop(t) ==
    /\ task[t].pc = "done"
    /\ task' = [task EXCEPT ![t] = Fresh("none", NoArgs)]
    /\ UNCHANGED <<gateway, router>>

\* get_external_ip up to its await
GetExternalIpEntry(g, s) ==
    perform_request(s, "get_external_ip", format_get_external_ip_message(g))

get_external_ip(t) ==
    /\ CanCall(t)
    /\ task' = [task EXCEPT ![t] =
                   GetExternalIpEntry(gateway, Fresh("get_external_ip", NoArgs))]
    /\ UNCHANGED <<gateway, router>>

get_any_address(t, protocol, local_addr, lease_duration, description) ==
    /\ CanCall(t)
    /\ task' = [task EXCEPT ![t] =
                   GetExternalIpEntry(gateway,
                       Fresh("get_any_address",
                             Args(protocol, NoPort, local_addr, lease_duration,
                                  description)))]
    /\ UNCHANGED <<gateway, router>>

\* Mutant: get_any_address going on to add_any_port when the query failed.
GetExternalIpResume_NoQuestionMark(g, s, r, p) ==
    LET s1 == Received(s, r)
        res == parse_get_external_ip_response(r)
    IN  IF s.op = "get_external_ip" THEN Return(s1, res)
        ELSE AddAnyPortEntry(g, [s1 EXCEPT !.ip = res.ip], p)

\* get_external_ip after its await; in get_any_address the `?` on its
\* result and the entry of add_any_port follow.
GetExternalIpResume(g, s, r, p) ==
    LET s1 == Received(s, r)
        res == parse_get_external_ip_response(r)
    IN  IF s.op = "get_external_ip" THEN Return(s1, res)
        ELSE IF res.status = "err"
             THEN Return(s1, Err(FromGetExternalIpError(res.err)))
             ELSE AddAnyPortEntry(g, [s1 EXCEPT !.ip = res.ip], p)

get_external_ip_await(t) ==
    /\ task[t].pc = "get_external_ip"
    /\ \E r \in Responses(task[t].inflight), p \in RandomPort :
           task' = [task EXCEPT ![t] = GetExternalIpResume(gateway, task[t], r, p)]
    /\ UNCHANGED <<gateway, router>>

add_any_port(t, protocol, local_addr, lease_duration, description) ==
    /\ CanCall(t)
    /\ \E p \in RandomPort :
           task' = [task EXCEPT ![t] =
                       AddAnyPortEntry(gateway,
                           Fresh("add_any_port",
                                 Args(protocol, NoPort, local_addr, lease_duration,
                                      description)), p)]
    /\ UNCHANGED <<gateway, router>>

\* Mutant: add_any_port returning the candidate it sent.
AddAnyPortResume_Candidate(g, s, r, p) ==
    LET s1 == Received(s, r)
        parsed == parse_add_any_port_mapping_response(r)
    IN  CASE parsed.tag = "Ok" -> Return(s1, OkPort(s1.external_port))
          [] parsed.tag = "ErrNone" ->
                 LoopHead(g, [s1 EXCEPT !.loops = @ + 1], 0, p)
          [] OTHER -> Return(s1, Err(parsed.err))

\* Mutant: add_any_port falling back to the retry loop on any error.
AddAnyPortResume_AnyError(g, s, r, p) ==
    LET s1 == Received(s, r)
        parsed == parse_add_any_port_mapping_response(r)
    IN  CASE parsed.tag = "Ok" -> Return(s1, OkPort(parsed.port))
          [] OTHER -> LoopHead(g, [s1 EXCEPT !.loops = @ + 1], 0, p)

\* add_any_port after the await of the AddAnyPortMapping request: the match
\* on the parsed response and, on Err(None), the entry of the retry loop.
AddAnyPortResume(g, s, r, p) ==
    LET s1 == Received(s, r)
        parsed == parse_add_any_port_mapping_response(r)
    IN  CASE parsed.tag = "Ok" -> Return(s1, OkPort(parsed.port))
          [] parsed.tag = "ErrNone" ->
                 LoopHead(g, [s1 EXCEPT !.loops = @ + 1], 0, p)
          [] OTHER -> Return(s1, Err(parsed.err))

add_any_port_await(t) ==
    /\ task[t].pc = "add_any_port"
    /\ \E r \in Responses(task[t].inflight), p \in RandomPort :
           task' = [task EXCEPT ![t] = AddAnyPortResume(gateway, task[t], r, p)]
    /\ UNCHANGED <<gateway, router>>

\* Mutant: add_random_port_mapping taking a transport error for a reason to
\* try another port.
AddRandomPortResume_RetryTransport(g, s, r, p) ==
    LET s1 == [Received(s, r) EXCEPT
                  !.conflicts = IF r = RespErr("ConflictInMappingEntry")
                                THEN @ + 1 ELSE @]
    IN  IF r.status = "ok" THEN LoopMatch(g, s1, OkPort(s1.external_port), p)
        ELSE IF r.err \in TransportError THEN LoopMatch(g, s1, Err(NoPortsAvailable), p)
        ELSE LET conv == convert_add_random_port_mapping_error(r.err)
             IN  IF conv.tag = "Some" THEN LoopMatch(g, s1, Err(conv.err), p)
                 ELSE SamePortEntry(g, s1)

\* Mutant: add_random_port_mapping returning the local port, as
\* add_same_port_mapping does.
AddRandomPortResume_LocalPort(g, s, r, p) ==
    LET s1 == [Received(s, r) EXCEPT
                  !.conflicts = IF r = RespErr("ConflictInMappingEntry")
                                THEN @ + 1 ELSE @]
    IN  IF r.status = "ok" THEN LoopMatch(g, s1, OkPort(s1.args.local_addr.port), p)
        ELSE LET conv == convert_add_random_port_mapping_error(r.err)
             IN  IF conv.tag = "Some" THEN LoopMatch(g, s1, Err(conv.err), p)
                 ELSE SamePortEntry(g, s1)

\* add_random_port_mapping after the await of its AddPortMapping request,
\* and what retry_add_random_port_mapping does with what it returns.
AddRandomPortResume(g, s, r, p) ==
    LET s1 == [Received(s, r) EXCEPT
                  !.conflicts = IF r = RespErr("ConflictInMappingEntry")
                                THEN @ + 1 ELSE @]
    IN  IF r.status = "ok" THEN LoopMatch(g, s1, OkPort(s1.external_port), p)
        ELSE LET conv == convert_add_random_port_mapping_error(r.err)
             IN  IF conv.tag = "Some" THEN LoopMatch(g, s1, Err(conv.err), p)
                 ELSE SamePortEntry(g, s1)

add_random_port_mapping_await(t) ==
    /\ task[t].pc = "add_random_port_mapping"
    /\ \E r \in Responses(task[t].inflight), p \in RandomPort :
           task' = [task EXCEPT ![t] = AddRandomPortResume(gateway, task[t], r, p)]
    /\ UNCHANGED <<gateway, router>>

\* add_same_port_mapping after the await of its AddPortMapping request; its
\* result is what add_random_port_mapping returns to the retry loop.
AddSamePortResume(g, s, r, p) ==
    LET s1 == Received(s, r)
    IN  IF r.status = "ok"
        THEN LoopMatch(g, s1, OkPort(s1.args.local_addr.port), p)
        ELSE LoopMatch(g, s1, Err(convert_add_same_port_mapping_error(r.err)), p)

add_same_port_mapping_await(t) ==
    /\ task[t].pc = "add_same_port_mapping"
    /\ \E r \in Responses(task[t].inflight), p \in RandomPort :
           task' = [task EXCEPT ![t] = AddSamePortResume(gateway, task[t], r, p)]
    /\ UNCHANGED <<gateway, router>>

\* Mutant: add_port checking the local port first.
AddPortEntry_LocalFirst(g, s) ==
    IF s.args.local_addr.port = 0
    THEN Return(s, Err(InternalPortZeroInvalid("AddPortError")))
    ELSE IF s.args.external_port = 0 THEN Return(s, Err(ExternalPortZeroInvalid))
         ELSE add_port_mapping(g, s, "add_port", s.args.external_port)

\* Mutant: add_port without the check of the local port.
AddPortEntry_Unchecked(g, s) ==
    IF s.args.external_port = 0 THEN Return(s, Err(ExternalPortZeroInvalid))
    ELSE add_port_mapping(g, s, "add_port", s.args.external_port)

\* add_port from its entry to its await
AddPortEntry(g, s) ==
    IF s.args.external_port = 0 THEN Return(s, Err(ExternalPortZeroInvalid))
    ELSE IF s.args.local_addr.port = 0
         THEN Return(s, Err(InternalPortZeroInvalid("AddPortError")))
         ELSE add_port_mapping(g, s, "add_port", s.args.external_port)

add_port(t, protocol, external_port, local_addr, lease_duration, description) ==
    /\ CanCall(t)
    /\ task' = [task EXCEPT ![t] =
                   AddPortEntry(gateway,
                       Fresh("add_port",
                             Args(protocol, external_port, local_addr,
                                  lease_duration, description)))]
    /\ UNCHANGED <<gateway, router>>

\* Mutant: add_port trying the local port when told "same port values
\* required".
AddPortResume_SamePort(g, s, r) ==
    LET s1 == Received(s, r)
    IN  IF r.status = "err"
        THEN IF r.err = "SamePortValuesRequired" THEN SamePortEntry(g, s1)
             ELSE Return(s1, Err(convert_add_port_error(r.err)))
        ELSE Return(s1, Ok)

\* add_port after its await
AddPortResume(g, s, r) ==
    LET s1 == Received(s, r)
    IN  IF r.status = "err" THEN Return(s1, Err(convert_add_port_error(r.err)))
        ELSE Return(s1, Ok)

add_port_await(t) ==
    /\ task[t].pc = "add_port"
    /\ \E r \in Responses(task[t].inflight) :
           task' = [task EXCEPT ![t] = AddPortResume(gateway, task[t], r)]
    /\ UNCHANGED <<gateway, router>>

\* remove_port up to its await
RemovePortEntry(g, s) ==
    perform_request(s, "remove_port",
        format_delete_port_message(g, s.args.protocol, s.args.external_port))

remove_port(t, protocol, external_port) ==
    /\ CanCall(t)
    /\ task' = [task EXCEPT ![t] =
                   RemovePortEntry(gateway,
                       Fresh("remove_port",
                             Args(protocol, external_port, NoAddr, -1, "none")))]
    /\ UNCHANGED <<gateway, router>>

\* Mutant: remove_port sending the request a second time after a failure.
RemovePortResume_Retry(g, s, r) ==
    LET s1 == Received(s, r)
    IN  IF r.status = "err" /\ s.count["remove_port"] < 2
        THEN RemovePortEntry(g, s1)
        ELSE Return(s1, parse_delete_port_mapping_response(r))

\* remove_port after its await
RemovePortResume(g, s, r) ==
    Return(Received(s, r), parse_delete_port_mapping_response(r))

remove_port_await(t) ==
    /\ task[t].pc = "remove_port"
    /\ \E r \in Responses(task[t].inflight) :
           task' = [task EXCEPT ![t] = RemovePortResume(gateway, task[t], r)]
    /\ UNCHANGED <<gateway, router>>

(* ---------------------------- specification ---------------------------- *)

\* Calls made one after the other by one task, against a device that may
\* answer each request in any way.
Next ==
    \E t \in SeqTask :
        \/ get_external_ip(t)
        \/ \E pr \in Protocol, la \in LocalAddr, ld \in Lease, d \in Description :
               get_any_address(t, pr, la, ld, d)
        \/ \E pr \in Protocol, la \in LocalAddr, ld \in Lease, d \in Description :
               add_any_port(t, pr, la, ld, d)
        \/ \E pr \in Protocol, ep \in Port, la \in LocalAddr, ld \in Lease,
              d \in Description :
               add_port(t, pr, ep, la, ld, d)
        \/ \E pr \in Protocol, ep \in Port : remove_port(t, pr, ep)
        \/ get_external_ip_await(t)
        \/ add_any_port_await(t)
        \/ add_random_port_mapping_await(t)
        \/ add_same_port_mapping_await(t)
        \/ add_port_await(t)
        \/ remove_port_await(t)
        \/ drop(t)

Spec == Init /\ [][Next]_vars

\* perform_request returns: the future of t is resumed at its await.
Resume(t) ==
    \/ get_external_ip_await(t)
    \/ add_any_port_await(t)
    \/ add_random_port_mapping_await(t)
    \/ add_same_port_mapping_await(t)
    \/ add_port_await(t)
    \/ remove_port_await(t)

\* The same calls, when every transport call returns in the end, with a
\* response or with an error.
SpecFair == Spec /\ \A t \in SeqTask : WF_vars(Resume(t))

(* ------------------- calls in parallel, against a router --------------- *)

\* The external ports of protocol that rt has not mapped.
FreePorts(rt, protocol) ==
    {q \in Port \ {0} : rt.table[<<protocol, q>>] = NoAddr}

\* rt with external_port of the request mapped to its local endpoint.
Mapped(rt, req, external_port) ==
    [rt.table EXCEPT ![<<req.protocol, external_port>>] = req.local_addr]

\* What the router can answer to an add request, and its table then.  It
\* does not map an external port that is mapped already.  AddAnyPortMapping
\* grants the port asked for when that is free, and any free port otherwise.
Serve(rt, req) ==
    IF req.header = ADD_ANY_PORT_MAPPING_HEADER
    THEN IF ~rt.any_port
         THEN {[resp |-> RespErr("InvalidAction"), table |-> rt.table]}
         ELSE IF FreePorts(rt, req.protocol) = {}
              THEN {[resp |-> RespErr("ConflictInMappingEntry"), table |-> rt.table]}
              ELSE {[resp |-> RespPort(q), table |-> Mapped(rt, req, q)] :
                        q \in IF req.external_port \in FreePorts(rt, req.protocol)
                              THEN {req.external_port}
                              ELSE FreePorts(rt, req.protocol)}
    ELSE IF rt.same_port /\ req.external_port # req.local_addr.port
         THEN {[resp |-> RespErr("SamePortValuesRequired"), table |-> rt.table]}
         ELSE IF req.external_port \notin FreePorts(rt, req.protocol)
              THEN {[resp |-> RespErr("ConflictInMappingEntry"), table |-> rt.table]}
              ELSE {[resp |-> RespOk, table |-> Mapped(rt, req, req.external_port)]}

\* add_any_port resumed with the router's answer to AddAnyPortMapping
add_any_port_served(t) ==
    /\ task[t].pc = "add_any_port"
    /\ \E o \in Serve(router, task[t].inflight), p \in RandomPort :
           /\ task' = [task EXCEPT ![t] = AddAnyPortResume(gateway, task[t], o.resp, p)]
           /\ router' = [router EXCEPT !.table = o.table]
    /\ UNCHANGED gateway

\* Mutant: the loop index kept in one place for all the calls on the
\* Gateway instead of in each call.
add_random_port_mapping_served_Shared(t) ==
    /\ task[t].pc = "add_random_port_mapping"
    /\ \E o \in Serve(router, task[t].inflight), p \in RandomPort :
           LET k == CHOOSE k \in {task[u].n : u \in Task} :
                        \A u \in Task : task[u].n <= k
           IN  /\ task' = [task EXCEPT ![t] =
                              AddRandomPortResume(gateway, [task[t] EXCEPT !.n = k],
                                                  o.resp, p)]
               /\ router' = [router EXCEPT !.table = o.table]
    /\ UNCHANGED gateway

\* add_random_port_mapping resumed with the router's answer
add_random_port_mapping_served(t) ==
    /\ task[t].pc = "add_random_port_mapping"
    /\ \E o \in Serve(router, task[t].inflight), p \in RandomPort :
           /\ task' = [task EXCEPT ![t] = AddRandomPortResume(gateway, task[t], o.resp, p)]
           /\ router' = [router EXCEPT !.table = o.table]
    /\ UNCHANGED gateway

\* add_same_port_mapping resumed with the router's answer
add_same_port_mapping_served(t) ==
    /\ task[t].pc = "add_same_port_mapping"
    /\ \E o \in Serve(router, task[t].inflight), p \in RandomPort :
           /\ task' = [task EXCEPT ![t] = AddSamePortResume(gateway, task[t], o.resp, p)]
           /\ router' = [router EXCEPT !.table = o.table]
    /\ UNCHANGED gateway

\* The protocol, local endpoints, lease and description of the calls made
\* in parallel: task t forwards to one of the local ports 1..t, so that two
\* tasks map the same local endpoint or different ones.
ConcProtocol == {"TCP"}
ConcLocalAddr(t) == {a \in LocalAddr : a.port \in 1..t}
ConcLease == {60}
ConcDescription == {"a"}

InitConc ==
    /\ gateway \in {new(a, c) : a \in {"192.168.0.1:5000"}, c \in ControlUrl}
    /\ task = [t \in Task |-> Fresh("none", NoArgs)]
    /\ router \in {Router(a, s) : a \in BOOLEAN, s \in BOOLEAN}

\* Any-port negotiations of several tasks on one Gateway, interleaved at
\* their awaits, against one router that keeps its mappings.
NextConc ==
    \E t \in Task :
        \/ \E pr \in ConcProtocol, la \in ConcLocalAddr(t), ld \in ConcLease,
              d \in ConcDescription :
               add_any_port(t, pr, la, ld, d)
        \/ add_any_port_served(t)
        \/ add_random_port_mapping_served(t)
        \/ add_same_port_mapping_served(t)
        \/ drop(t)

SpecConc == InitConc /\ [][NextConc]_vars

(* ------------------------------ type check ----------------------------- *)

TypeOK ==
    /\ gateway \in [addr : Addr, control_url : ControlUrl]
    /\ \A t \in Task :
        /\ task[t].op \in Operation \cup {"none"}
        /\ task[t].pc \in Site \cup {"idle", "done"}
        /\ task[t].n \in 0..(MaxAttempts - 1)
        /\ task[t].external_port \in RandomPort \cup {NoPort}
        /\ (task[t].pc \in Site) = (task[t].inflight # NoRequest)
        /\ (task[t].pc = "done") = (task[t].result # NoResult)

(* ------------------------------ properties ----------------------------- *)

\* The requests an invocation has issued, over all its call sites.
Sent(s) ==
    s.count["get_external_ip"] + s.count["add_any_port"]
    + s.count["add_random_port_mapping"] + s.count["add_same_port_mapping"]
    + s.count["add_port"] + s.count["remove_port"]

\* The mapping requests (everything but the external-IP query).
SentMapping(s) == Sent(s) - s.count["get_external_ip"]

\* The explicit AddPortMapping requests of Layer 2 and Layer 3.
SentExplicit(s) ==
    s.count["add_random_port_mapping"] + s.count["add_same_port_mapping"]

\* The invocation runs the any-port negotiation.
AnyPortCall(s) == s.op \in {"add_any_port", "get_any_address"}

\* s has failed with the validation error kind, having sent nothing.
Rejected(s, kind) ==
    /\ s.pc = "done"
    /\ s.result.status = "err"
    /\ s.result.err.kind = kind
    /\ s.result.err.cause = NoError
    /\ Sent(s) = 0

\* C1 as stated: with local port 0, add_any_port and add_port fail with the
\* internal-port-zero error and issue no request, whatever the other
\* arguments are.
C1_AsStated ==
    \A t \in Task :
        (task[t].op \in {"add_any_port", "add_port"}
            /\ task[t].args.local_addr.port = 0)
        => Rejected(task[t], "InternalPortZeroInvalid")

\* C1 amended: with local port 0, add_any_port and add_port issue no request
\* and fail with the internal-port-zero error, except that add_port called
\* with external_port 0 as well fails with the external-port-zero error.
C1_LocalPortZero ==
    \A t \in Task :
        (task[t].op \in {"add_any_port", "add_port"}
            /\ task[t].args.local_addr.port = 0)
        => IF task[t].op = "add_port" /\ task[t].args.external_port = 0
           THEN Rejected(task[t], "ExternalPortZeroInvalid")
                /\ task[t].result.err.type = "AddPortError"
           ELSE Rejected(task[t], "InternalPortZeroInvalid")
                /\ task[t].result.err.type =
                     (IF task[t].op = "add_port" THEN "AddPortError"
                      ELSE "AddAnyPortError")

C1_Witness ==
    \E t \in Task :
        /\ task[t].op = "add_port"
        /\ task[t].args.local_addr.port = 0
        /\ task[t].args.external_port # 0
        /\ Rejected(task[t], "InternalPortZeroInvalid")

\* C2: add_port with external_port 0 fails with the external-port-zero
\* error and issues no request, whatever the other arguments are.
C2_ExternalPortZero ==
    \A t \in Task :
        (task[t].op = "add_port" /\ task[t].args.external_port = 0)
        => /\ Rejected(task[t], "ExternalPortZeroInvalid")
           /\ task[t].result = Err(ExternalPortZeroInvalid)

C2_Witness ==
    \E t \in Task :
        /\ task[t].op = "add_port"
        /\ task[t].args.external_port = 0
        /\ task[t].args.local_addr.port = 0
        /\ task[t].result = Err(ExternalPortZeroInvalid)

\* C3 as stated: with local port 0, get_any_address, add_any_port and
\* add_port issue no request at all.
C3_AsStated ==
    \A t \in Task :
        (task[t].op \in {"get_any_address", "add_any_port", "add_port"}
            /\ task[t].args.local_addr.port = 0)
        => Sent(task[t]) = 0

\* C3 amended: with local port 0, add_any_port and add_port are rejected
\* before any request; get_any_address issues the external-IP query and no
\* other request, and when the query succeeds it fails with the
\* internal-port-zero error (when the query fails, with the query's error).
C3_LocalPortZeroRejected ==
    \A t \in Task :
        LET s == task[t] IN
        (s.op \in {"get_any_address", "add_any_port", "add_port"}
            /\ s.args.local_addr.port = 0)
        => IF s.op = "get_any_address"
           THEN /\ s.count["get_external_ip"] = 1
                /\ SentMapping(s) = 0
                /\ s.pc \in {"get_external_ip", "done"}
                /\ s.pc = "done" =>
                     s.result =
                       IF s.resp["get_external_ip"].status = "ok"
                       THEN Err(InternalPortZeroInvalid("AddAnyPortError"))
                       ELSE Err(Error("AddAnyPortError", "RequestError",
                                      s.resp["get_external_ip"].err))
           ELSE \/ Rejected(s, "InternalPortZeroInvalid")
                \/ Rejected(s, "ExternalPortZeroInvalid")

C3_Witness ==
    \E t \in Task :
        /\ task[t].op = "get_any_address"
        /\ task[t].args.local_addr.port = 0
        /\ task[t].resp["get_external_ip"].status = "ok"
        /\ task[t].result = Err(InternalPortZeroInvalid("AddAnyPortError"))

\* The port an any-port negotiation hands out, read off what the device
\* answered: the local port after a Layer 3 success, the candidate of the
\* last request after a Layer 2 success, the granted port after Layer 1.
Negotiated(s) ==
    IF s.resp["add_same_port_mapping"].status = "ok" THEN s.args.local_addr.port
    ELSE IF s.resp["add_random_port_mapping"].status = "ok" THEN s.last.external_port
    ELSE s.resp["add_any_port"].port

\* C4: when the Layer 1 request succeeds, the call returns the port the
\* device granted in its response and issues no explicit add-mapping
\* request.
C4_Layer1Success ==
    \A t \in Task :
        LET s == task[t] IN
        (AnyPortCall(s) /\ s.resp["add_any_port"].status = "ok")
        => /\ s.pc = "done"
           /\ s.result.status = "ok"
           /\ s.result.port = s.resp["add_any_port"].port
           /\ s.count["add_any_port"] = 1
           /\ SentExplicit(s) = 0
           /\ s.count["add_port"] = 0

C4_Witness ==
    \E t \in Task :
        /\ task[t].op = "add_any_port"
        /\ task[t].resp["add_any_port"].status = "ok"
        /\ task[t].resp["add_any_port"].port # task[t].external_port
        /\ task[t].result = OkPort(task[t].resp["add_any_port"].port)

\* C5: the Layer 2 loop is entered only when Layer 1 reported the unknown
\* method fault, and then exactly once; any other fault of Layer 1 is
\* returned at once and no further request is issued.
C5_Layer1Fault ==
    \A t \in Task :
        LET s == task[t]
            r1 == s.resp["add_any_port"]
        IN  /\ s.loops <= 1
            /\ (s.loops = 1) = (AnyPortCall(s) /\ r1 = RespErr("InvalidAction"))
            /\ SentExplicit(s) > 0 => s.loops = 1
            /\ (AnyPortCall(s) /\ r1.status = "err" /\ r1.err \in Fault
                    /\ r1.err # "InvalidAction")
               => /\ s.pc = "done"
                  /\ s.result = Err(Error("AddAnyPortError", "RequestError", r1.err))
                  /\ s.count["add_any_port"] = 1
                  /\ SentMapping(s) = 1

C5_Witness ==
    \E t \in Task :
        /\ task[t].op = "add_any_port"
        /\ task[t].resp["add_any_port"] = RespErr("ConflictInMappingEntry")
        /\ task[t].pc = "done"

\* C6: when Layer 1 reported the unknown method and every Layer 2 attempt
\* was answered by a port conflict, the call fails with NoPortsAvailable
\* after exactly 20 explicit-add requests and without a Layer 3 request.
C6_Exhaustion ==
    \A t \in Task :
        LET s == task[t] IN
        (AnyPortCall(s) /\ s.pc = "done" /\ s.loops = 1
            /\ s.conflicts = s.count["add_random_port_mapping"])
        => /\ s.result = Err(NoPortsAvailable)
           /\ s.count["add_random_port_mapping"] = 20
           /\ s.count["add_same_port_mapping"] = 0
           /\ s.count["add_any_port"] = 1

C6_Witness ==
    \E t \in Task :
        /\ task[t].op = "add_any_port"
        /\ task[t].pc = "done"
        /\ task[t].conflicts = 20
        /\ task[t].result = Err(NoPortsAvailable)

\* C7: when a Layer 2 attempt is answered "same port values required",
\* exactly one Layer 3 request follows, with the local port as external
\* port, and no further Layer 2 attempt is made whatever Layer 3 is
\* answered: a success returns the local port, any failure ends the call.
C7_SamePort ==
    \A t \in Task :
        LET s == task[t]
            r3 == s.resp["add_same_port_mapping"]
        IN  /\ (AnyPortCall(s)
                  /\ s.resp["add_random_port_mapping"] = RespErr("SamePortValuesRequired"))
               => /\ s.count["add_same_port_mapping"] = 1
                  /\ s.count["add_random_port_mapping"] = s.conflicts + 1
                  /\ s.count["add_random_port_mapping"] = s.n + 1
                  /\ s.last.header = ADD_PORT_MAPPING_HEADER
                  /\ s.last.external_port = s.args.local_addr.port
                  /\ s.last.local_addr = s.args.local_addr
                  /\ IF r3.status = "none"
                     THEN s.pc = "add_same_port_mapping" /\ s.inflight = s.last
                     ELSE /\ s.pc = "done"
                          /\ r3.status = "ok" =>
                               /\ s.result.status = "ok"
                               /\ s.result.port = s.args.local_addr.port
                          /\ r3.status = "err" =>
                               /\ s.result.status = "err"
                               /\ s.result.err.cause = r3.err
            /\ s.count["add_same_port_mapping"] > 0 =>
                 s.resp["add_random_port_mapping"] = RespErr("SamePortValuesRequired")

C7_Witness ==
    \E t \in Task :
        /\ task[t].op = "add_any_port"
        /\ task[t].resp["add_random_port_mapping"] = RespErr("SamePortValuesRequired")
        /\ task[t].n > 0
        /\ task[t].resp["add_same_port_mapping"] = RespErr("ConflictInMappingEntry")
        /\ task[t].pc = "done"
        /\ task[t].result.status = "err"

\* C8: get_any_address issues the external-IP query before any mapping
\* request; when the query fails the call fails with that error and issues
\* no mapping request; when both steps succeed the result is the queried
\* ip with the port of the any-port negotiation.
C8_GetAnyAddress ==
    \A t \in Task :
        LET s == task[t]
            rip == s.resp["get_external_ip"]
        IN  s.op = "get_any_address"
            => /\ s.count["get_external_ip"] = 1
               /\ SentMapping(s) > 0 => rip.status = "ok"
               /\ rip.status = "err"
                    => /\ s.pc = "done"
                       /\ s.result = Err(Error("AddAnyPortError", "RequestError", rip.err))
                       /\ SentMapping(s) = 0
               /\ (s.pc = "done" /\ s.result.status = "ok")
                    => /\ rip.status = "ok"
                       /\ s.result = OkAddr(rip.ip, Negotiated(s))
                       /\ SentMapping(s) > 0

C8_Witness ==
    \E t \in Task :
        /\ task[t].op = "get_any_address"
        /\ task[t].pc = "done"
        /\ task[t].resp["get_external_ip"].status = "ok"
        /\ task[t].resp["add_random_port_mapping"].status = "ok"
        /\ task[t].result = OkAddr(task[t].resp["get_external_ip"].ip,
                                   task[t].last.external_port)

\* C9: a remove_port call issues exactly one delete-mapping request, never
\* a second one or another request; on success it returns no payload and
\* on a failure it returns the error it was answered.
C9_RemovePort ==
    \A t \in Task :
        LET s == task[t]
            r == s.resp["remove_port"]
        IN  s.op = "remove_port"
            => /\ s.count["remove_port"] = 1
               /\ Sent(s) = 1
               /\ s.last = format_delete_port_message(gateway, s.args.protocol,
                                                      s.args.external_port)
               /\ (s.pc = "done") = (r.status # "none")
               /\ r.status = "ok" => s.result = Ok
               /\ r.status = "err"
                    => /\ s.result.status = "err"
                       /\ s.result.err.cause = r.err

C9_Witness ==
    \E t \in Task :
        /\ task[t].op = "remove_port"
        /\ task[t].pc = "done"
        /\ task[t].resp["remove_port"] = RespErr("ActionNotAuthorized")
        /\ task[t].result.err.cause = "ActionNotAuthorized"

\* C10: add_port with external and local port other than 0 issues exactly
\* one explicit add-mapping request, with the requested external port;
\* every failure, port conflict and "same port values required" included,
\* ends the call: no retry, no other port, no Layer 3 request.
C10_AddPort ==
    \A t \in Task :
        LET s == task[t]
            r == s.resp["add_port"]
        IN  (s.op = "add_port" /\ s.args.external_port # 0
                /\ s.args.local_addr.port # 0)
            => /\ s.count["add_port"] = 1
               /\ Sent(s) = 1
               /\ s.last = format_add_port_mapping_message(gateway, s.args.protocol,
                               s.args.external_port, s.args.local_addr,
                               s.args.lease_duration, s.args.description)
               /\ (s.pc = "done") = (r.status # "none")
               /\ r.status = "ok" => s.result = Ok
               /\ r.status = "err"
                    => /\ s.result.status = "err"
                       /\ s.result.err.type = "AddPortError"
                       /\ s.result.err.cause = r.err

C10_Witness ==
    \E t \in Task :
        /\ task[t].op = "add_port"
        /\ task[t].pc = "done"
        /\ task[t].args.external_port # task[t].args.local_addr.port
        /\ task[t].resp["add_port"] = RespErr("SamePortValuesRequired")
        /\ task[t].result.status = "err"

\* s has ended with the error e of the request it sent last at site, the
\* k-th request of Layer 2 being the last of that layer.
EndedBy(s, site, e) ==
    /\ s.pc = "done"
    /\ s.result = Err(Error("AddAnyPortError", "RequestError", e))
    /\ s.count["add_any_port"] = 1
    /\ s.count["add_random_port_mapping"] =
         (IF site = "add_any_port" THEN 0 ELSE s.conflicts + 1)
    /\ s.count["add_same_port_mapping"] =
         (IF site = "add_same_port_mapping" THEN 1 ELSE 0)
    /\ s.loops = (IF site = "add_any_port" THEN 0 ELSE 1)

\* C11: a transport error on a request of add_any_port, at Layer 1, at any
\* Layer 2 iteration or at Layer 3, ends the call: no request follows, no
\* fallback and no retry, and the call returns that transport error.
C11_TransportFatal ==
    \A t \in Task :
        \A site \in {"add_any_port", "add_random_port_mapping",
                     "add_same_port_mapping"} :
            (AnyPortCall(task[t]) /\ task[t].resp[site].status = "err"
                /\ task[t].resp[site].err \in TransportError)
            => EndedBy(task[t], site, task[t].resp[site].err)

C11_Witness ==
    \E t \in Task :
        /\ task[t].op = "add_any_port"
        /\ task[t].resp["add_random_port_mapping"] = RespErr("TransportError")
        /\ task[t].n > 0
        /\ task[t].n < 19
        /\ task[t].pc = "done"
        /\ task[t].result.err.cause = "TransportError"

\* C12: when the Layer 2 attempt of iteration k succeeds, the call returns
\* the candidate port sent in that k-th request, and no request follows.
C12_Layer2Success ==
    \A t \in Task :
        LET s == task[t] IN
        (AnyPortCall(s) /\ s.resp["add_random_port_mapping"].status = "ok")
        => /\ s.pc = "done"
           /\ s.result.status = "ok"
           /\ s.result.port = s.last.external_port
           /\ s.last.header = ADD_PORT_MAPPING_HEADER
           /\ s.count["add_random_port_mapping"] = s.n + 1
           /\ s.count["add_random_port_mapping"] = s.conflicts + 1
           /\ s.count["add_same_port_mapping"] = 0
           /\ s.count["add_any_port"] = 1

C12_Witness ==
    \E t \in Task :
        /\ task[t].op = "add_any_port"
        /\ task[t].resp["add_random_port_mapping"].status = "ok"
        /\ task[t].n > 0
        /\ task[t].result = OkPort(task[t].last.external_port)
        /\ task[t].result.port # task[t].args.local_addr.port

\* C13: when the Layer 2 attempt of iteration k fails with a fault that is
\* neither the port conflict nor "same port values required", the call has
\* made exactly k Layer 2 requests and no Layer 3 request, and fails with
\* that fault, not with the exhaustion error.
C13_Layer2OtherFault ==
    \A t \in Task :
        LET s == task[t]
            r2 == s.resp["add_random_port_mapping"]
        IN  (AnyPortCall(s) /\ r2.status = "err"
                /\ r2.err \in Fault \ {"ConflictInMappingEntry", "SamePortValuesRequired"})
            => /\ EndedBy(s, "add_random_port_mapping", r2.err)
               /\ s.count["add_random_port_mapping"] = s.n + 1
               /\ s.result.err # NoPortsAvailable

C13_Witness ==
    \E t \in Task :
        /\ task[t].op = "add_any_port"
        /\ task[t].resp["add_random_port_mapping"] = RespErr("ActionNotAuthorized")
        /\ task[t].n > 0
        /\ task[t].count["add_random_port_mapping"] = task[t].n + 1
        /\ task[t].pc = "done"

\* C14: an add_any_port invocation never has sent more than 20 explicit
\* add-mapping requests with a random candidate, nor more than one
\* add-any-port request.
C14_AttemptsBounded ==
    \A t \in Task :
        /\ task[t].count["add_random_port_mapping"] <= 20
        /\ task[t].count["add_any_port"] <= 1

C14_Witness ==
    \E t \in Task :
        /\ task[t].op = "add_any_port"
        /\ task[t].count["add_random_port_mapping"] = 20
        /\ task[t].pc = "add_random_port_mapping"

\* req is a request of s made with the arguments of s.
CarriesArgs(g, s, req) ==
    /\ req.url = Display(g)
    /\ req.protocol = s.args.protocol
    /\ req.local_addr = s.args.local_addr
    /\ req.lease_duration = s.args.lease_duration
    /\ req.description = s.args.description

\* C16: every request of an add_any_port invocation, at Layer 1, 2 or 3,
\* carries the protocol, local endpoint, lease duration and description
\* given to the call; only the external port varies.
C16_SameArguments ==
    \A t \in Task :
        LET s == task[t] IN
        (AnyPortCall(s)
            /\ s.last.header \in {ADD_ANY_PORT_MAPPING_HEADER, ADD_PORT_MAPPING_HEADER})
        => /\ CarriesArgs(gateway, s, s.last)
           /\ s.pc \in Site => s.inflight = s.last

C16_Witness ==
    \E t \in Task :
        /\ task[t].op = "add_any_port"
        /\ task[t].pc = "add_same_port_mapping"
        /\ task[t].n > 0
        /\ task[t].args.lease_duration # 0
        /\ CarriesArgs(gateway, task[t], task[t].inflight)

\* C17: no request of add_any_port carries external port 0: the random
\* candidates are never 0, and the Layer 3 port is the local port, which
\* is not 0 when a request is sent.
C17_NoPortZero ==
    \A t \in Task :
        LET s == task[t] IN
        (AnyPortCall(s)
            /\ s.last.header \in {ADD_ANY_PORT_MAPPING_HEADER, ADD_PORT_MAPPING_HEADER})
        => /\ s.last.external_port \in 1..MaxPort
           /\ s.args.local_addr.port # 0
           /\ s.last.header = ADD_PORT_MAPPING_HEADER /\ s.count["add_same_port_mapping"] = 1
                => s.last.external_port = s.args.local_addr.port

C17_Witness ==
    \E t \in Task :
        /\ task[t].op = "add_any_port"
        /\ task[t].pc = "add_same_port_mapping"
        /\ task[t].inflight.external_port = task[t].args.local_addr.port
        /\ task[t].inflight.external_port # 0

\* The state of the any-port negotiation of s, in the terms of the state
\* machine Start, TryAnyPort, TryExplicitLoop, TrySamePort, Done, Failed.
Phase(s) ==
    CASE s.pc = "idle" -> "Start"
      [] s.pc = "add_any_port" -> "TryAnyPort"
      [] s.pc = "add_random_port_mapping" -> "TryExplicitLoop"
      [] s.pc = "add_same_port_mapping" -> "TrySamePort"
      [] s.pc = "done" /\ s.result.status = "ok" -> "Done"
      [] s.pc = "done" /\ s.result.status = "err" -> "Failed"
      [] OTHER -> "Other"

\* The transitions of the state machine; an iteration of the Layer 2 loop
\* stays in TryExplicitLoop.
Transitions ==
    {<<"Start", "TryAnyPort">>,
     <<"TryAnyPort", "Done">>, <<"TryAnyPort", "Failed">>,
     <<"TryAnyPort", "TryExplicitLoop">>,
     <<"TryExplicitLoop", "TryExplicitLoop">>,
     <<"TryExplicitLoop", "Done">>, <<"TryExplicitLoop", "Failed">>,
     <<"TryExplicitLoop", "TrySamePort">>,
     <<"TrySamePort", "Done">>, <<"TrySamePort", "Failed">>}

\* Every step of an add_any_port invocation is a transition of T; a step
\* out of Done or Failed is none, so a terminal state is not left.
Follows(T) ==
    \A t \in Task :
        (task'[t] # task[t] /\ task'[t].op = "add_any_port")
        => <<Phase(task[t]), Phase(task'[t])>> \in T

\* Every add_any_port invocation reaches Done with a port or Failed with a
\* typed error.
Terminates ==
    \A t \in Task :
        (task[t].op = "add_any_port")
        ~> (/\ task[t].op = "add_any_port"
            /\ \/ Phase(task[t]) = "Done" /\ task[t].result.port \in Port
               \/ /\ Phase(task[t]) = "Failed"
                  /\ task[t].result.err.type = "AddAnyPortError")

\* C15 as stated: when every transport call returns, every add_any_port
\* invocation reaches Done or Failed, by the transitions Start ->
\* TryAnyPort -> {Done | Failed | TryExplicitLoop -> {Done | Failed |
\* TrySamePort -> {Done | Failed}}} only, and never leaves a terminal state.
C15_AsStated == Terminates /\ [][Follows(Transitions)]_vars

\* C15 amended: as stated, with the transition Start -> Failed added, which
\* a call with local port 0 takes without sending a request.
C15_StateMachine ==
    Terminates /\ [][Follows(Transitions \cup {<<"Start", "Failed">>})]_vars

C15_Witness ==
    \E t \in Task :
        /\ task[t].op = "add_any_port"
        /\ Phase(task[t]) = "Failed"
        /\ task[t].resp["add_same_port_mapping"].status = "err"
        /\ task[t].n = 19

\* No step changes the Gateway, and a step of one call leaves the other
\* calls as they are.
Untouched ==
    /\ gateway' = gateway
    /\ \A t \in Task :
           task'[t] # task[t] => \A u \in Task \ {t} : task'[u] = task[u]

\* An add_any_port call is, after its first step, at Layer 1 with nothing
\* but the AddAnyPortMapping request sent (or has been rejected).
StartsAtLayer1 ==
    \A t \in Task :
        (task[t].pc = "idle" /\ task'[t].op = "add_any_port")
        => IF task'[t].args.local_addr.port = 0
           THEN Rejected(task'[t], "InternalPortZeroInvalid")
           ELSE /\ task'[t].pc = "add_any_port"
                /\ task'[t].count = [s \in Site |-> IF s = "add_any_port" THEN 1 ELSE 0]
                /\ task'[t].resp = [s \in Site |-> NoResponse]
                /\ task'[t].n = 0
                /\ task'[t].conflicts = 0
                /\ task'[t].loops = 0

\* The Layer 2 attempts of a call are counted by its own iterations, and a
\* call that ends exhausted has made all 20 of them.
OwnBudget ==
    \A t \in Task :
        LET s == task[t] IN
        AnyPortCall(s)
        => /\ s.count["add_random_port_mapping"] = (IF s.loops = 1 THEN s.n + 1 ELSE 0)
           /\ s.pc = "add_any_port" => s.n = 0 /\ s.loops = 0
           /\ (s.pc = "done" /\ s.result = Err(NoPortsAvailable))
                => s.count["add_random_port_mapping"] = 20 /\ s.conflicts = 20

\* C18: no negotiation state is shared between the invocations on one
\* Gateway: after any earlier calls and beside any running ones, an
\* add_any_port invocation starts at Layer 1 and has its own 20 Layer 2
\* attempts, and no operation changes the Gateway's addr or control_url.
C18_NoSharedState == []OwnBudget /\ [][Untouched /\ StartsAtLayer1]_vars

C18_Witness ==
    \E t \in Task, u \in Task :
        /\ t # u
        /\ task[t].pc = "done"
        /\ task[t].result = Err(NoPortsAvailable)
        /\ task[t].count["add_random_port_mapping"] = 20
        /\ task[u].op = "add_any_port"
        /\ task[u].pc = "add_random_port_mapping"
        /\ task[u].n = 0
        /\ task[u].count["add_random_port_mapping"] = 1

\* C19: against a router without AddAnyPortMapping that answers a request
\* for a mapped external port with the port conflict, a conflict met by
\* one of two interleaved negotiations takes one Layer 2 iteration of it and
\* is followed by another candidate; the call ends in success or, after 20
\* attempts, in the exhaustion error, never in a conflict error.
C19_ConflictAbsorbed ==
    (~router.any_port /\ ~router.same_port)
    => \A t \in Task :
           LET s == task[t] IN
           AnyPortCall(s)
           => /\ s.count["add_same_port_mapping"] = 0
              /\ s.pc = "add_random_port_mapping"
                   => /\ s.conflicts = s.n
                      /\ s.count["add_random_port_mapping"] = s.n + 1
              /\ s.pc = "done"
                   => \/ /\ s.result = OkPort(s.last.external_port)
                         /\ s.count["add_random_port_mapping"] = s.conflicts + 1
                      \/ /\ s.result = Err(NoPortsAvailable)
                         /\ s.conflicts = 20
                         /\ s.count["add_random_port_mapping"] = 20
              /\ s.result.err.cause # "ConflictInMappingEntry"

\* The port of task t's result is mapped, and besides it only the port of
\* task u's result: a conflict t met was with the mapping u made.
C19_Witness ==
    \E t \in Task, u \in Task :
        /\ t # u
        /\ ~router.any_port /\ ~router.same_port
        /\ task[t].pc = "done" /\ task[t].result.status = "ok"
        /\ task[u].pc = "done" /\ task[u].result.status = "ok"
        /\ task[t].conflicts > 0
        /\ task[t].result.port # task[u].result.port
        /\ (Port \ {0}) \ FreePorts(router, task[t].args.protocol)
             = {task[t].result.port, task[u].result.port}

\* The response to the request s sent last.
LastResponse(s) ==
    s.resp[IF s.count["add_same_port_mapping"] > 0 THEN "add_same_port_mapping"
           ELSE IF s.count["add_random_port_mapping"] > 0
                THEN "add_random_port_mapping"
                ELSE "add_any_port"]

\* C20: when add_any_port returns a port, the request it sent last was an
\* add request the router accepted, and the port is the external port that
\* request mapped to the local endpoint of the call: the granted port at
\* Layer 1, the candidate sent at Layer 2, the local port at Layer 3.  So
\* two interleaved negotiations for one protocol that both succeed do not
\* return the same port.
C20_ReturnedPortIsMapped ==
    /\ \A t \in Task :
           LET s == task[t] IN
           (AnyPortCall(s) /\ s.pc = "done" /\ s.result.status = "ok")
           => /\ s.last.header \in {ADD_ANY_PORT_MAPPING_HEADER, ADD_PORT_MAPPING_HEADER}
              /\ LastResponse(s).status = "ok"
              /\ s.result.port =
                   (IF s.last.header = ADD_ANY_PORT_MAPPING_HEADER
                    THEN LastResponse(s).port
                    ELSE s.last.external_port)
              /\ s.count["add_same_port_mapping"] > 0
                   => s.result.port = s.args.local_addr.port
              /\ s.result.port \in Port \ {0}
              /\ router.table[<<s.args.protocol, s.result.port>>] = s.args.local_addr
    /\ \A t \in Task, u \in Task :
           (/\ t # u
            /\ task[t].pc = "done" /\ task[t].result.status = "ok"
            /\ task[u].pc = "done" /\ task[u].result.status = "ok"
            /\ task[t].args.protocol = task[u].args.protocol)
           => task[t].result.port # task[u].result.port

C20_Witness ==
    \E t \in Task, u \in Task :
        /\ t # u
        /\ router.any_port
        /\ task[t].pc = "done" /\ task[t].result.status = "ok"
        /\ task[u].pc = "done" /\ task[u].result.status = "ok"
        /\ task[t].args = task[u].args
        /\ task[t].external_port = task[u].external_port
        /\ task[t].result.port # task[u].result.port

====
